---- MODULE Spec2Model ----
(***************************************************************************)
(* RSA-FDH: the regular signature scheme (lib.rs: sign, verify) and the    *)
(* blind signature scheme (blind.rs: hash_message, blind, sign, unblind,   *)
(* verify), over small RSA keys.  Byte strings are sequences of 0..255.    *)
(* One behaviour is one run of both protocols for a key, a message and a   *)
(* hash function H (the caller's type parameter).                          *)
(***************************************************************************)
EXTENDS Integers, Sequences, FiniteSets

\* ------------------------------------------------------------ bounds
\* longest message, in bytes (message bytes are 0 or 1)
MaxMsgLen == 2
\* the rng's draws are taken among the MaxDraw+1 lowest and MaxDraw highest residues
MaxDraw == 3
\* number of counters (initialization vectors) the Hash Expander tries
MaxRetry == 4

\* ------------------------------------------------------------ keys
\* RsaPrivateKey {n, e, d}; to_public_key() keeps n and e.
Keys ==
    { [n |-> 33,  e |-> 3, d |-> 7],
      [n |-> 35,  e |-> 5, d |-> 5],
      [n |-> 323, e |-> 5, d |-> 173] }

to_public_key(priv) == [n |-> priv.n, e |-> priv.e]

\* ------------------------------------------------------------ integers
RECURSIVE ModExp(_, _, _)
ModExp(b, x, n) ==
    IF x = 0 THEN 1 % n
    ELSE LET h == ModExp(b, x \div 2, n)
             s == (h * h) % n
         IN IF x % 2 = 1 THEN (s * (b % n)) % n ELSE s

RECURSIVE Gcd(_, _)
Gcd(a, b) == IF b = 0 THEN a ELSE Gcd(b, a % b)

\* r.mod_inverse(n): Some(ir) exactly when r is coprime to n
HasInverse(r, n) == Gcd(r, n) = 1
\* the inverse of r modulo n, for 0 < r < n coprime to n (Euclid's algorithm)
RECURSIVE ModInverse(_, _)
ModInverse(r, n) ==
    IF r = 1 THEN 1
    ELSE (1 + n * (r - ModInverse(n % r, r))) \div r

\* ------------------------------------------------------------ bytes
RECURSIVE from_bytes_be(_)
from_bytes_be(b) ==
    IF Len(b) = 0 THEN 0
    ELSE from_bytes_be(SubSeq(b, 1, Len(b) - 1)) * 256 + b[Len(b)]

\* BigUint::to_bytes_be: the minimal big-endian encoding; zero is the one byte 0
RECURSIVE to_bytes_be(_)
to_bytes_be(v) ==
    IF v < 256 THEN <<v>>
    ELSE Append(to_bytes_be(v \div 256), v % 256)

RECURSIVE BitLen(_)
BitLen(v) == IF v = 0 THEN 0 ELSE 1 + BitLen(v \div 2)

\* PublicKey::size(): the modulus length in bytes, ceil(bitlen(n) / 8)
size(key) == (BitLen(key.n) + 7) \div 8

RECURSIVE Pow256(_)
Pow256(k) == IF k = 0 THEN 1 ELSE 256 * Pow256(k - 1)

\* the big-endian encoding of v in exactly k bytes (v < 256^k)
RECURSIVE FixedBytes(_, _)
FixedBytes(v, k) ==
    IF k = 0 THEN <<>>
    ELSE Append(FixedBytes(v \div 256, k - 1), v % 256)

\* ------------------------------------------------------------ results
Ok(v) == [ok |-> TRUE, val |-> v, err |-> "none"]
Err(e) == [ok |-> FALSE, val |-> <<>>, err |-> e]

\* ------------------------------------------------------------ inputs
\* messages: every string of the bytes 0 and 1 of at most MaxMsgLen bytes,
\* the empty message included
Messages ==
    UNION { [1..l -> 0..1] : l \in 0..MaxMsgLen }

\* an injective numbering of the messages (the empty message is 0)
RECURSIVE MsgNum(_)
MsgNum(m) ==
    IF Len(m) = 0 THEN 0
    ELSE MsgNum(SubSeq(m, 1, Len(m) - 1)) * 3 + m[Len(m)] + 1

\* H: the caller's hash function (H: Digest).  A member of the family maps
\* (message, counter) to an integer; the expander keeps its k low bytes.
Hashes ==
    { [c |-> 1,   a |-> 2,  b |-> 7],
      [c |-> 0,   a |-> 1,  b |-> 100],
      [c |-> 30,  a |-> 1,  b |-> 100],
      [c |-> 300, a |-> 10, b |-> 65500] }

\* the k-byte candidate of one attempt: H over the message and the counter,
\* extended/truncated to exactly k bytes
Candidate(h, message, iv, k) ==
    FixedBytes((h.c + h.a * MsgNum(message) + h.b * iv) % Pow256(k), k)

\* the values rng.gen_biguint_below(n) may return in a run of the model
RngDraws(n) ==
    { r \in 0..(n - 1) : r <= MaxDraw \/ r >= n - MaxDraw }

\* ------------------------------------------------------------ rsa::internals
\* internals::blind: r is the draw the resampling loop accepts (a zero draw is
\* replaced by one; a draw without inverse is drawn again); returns
\* (c * r^e mod n, r^-1 mod n)
Accepted(r, n) == HasInverse(IF r = 0 THEN 1 ELSE r, n)

internals_blind(r, key, c) ==
    LET rr == IF r = 0 THEN 1 ELSE r
    IN << (c * ModExp(rr, key.e, key.n)) % key.n, ModInverse(rr, key.n) >>

\* internals::unblind: (m * unblinder) mod n
internals_unblind(key, m, unblinder) == (m * unblinder) % key.n

\* internals::encrypt: c^e mod n
encrypt(key, c) == ModExp(c, key.e, key.n)

\* internals::decrypt_and_check with Some(rng): blind, exponentiate, unblind,
\* then check the result against the input
decrypt_and_check(r, priv, c) ==
    LET bl == internals_blind(r, priv, c)
        m  == internals_unblind(priv, ModExp(bl[1], priv.d, priv.n), bl[2])
    IN IF encrypt(priv, m) = c THEN Ok(m) ELSE Err("Internal")

\* ------------------------------------------------------------ common
\* Hash Expander retry loop: counters from iv upwards, the first candidate
\* whose integer is < n wins; a hashing failure once the bound is exceeded
RECURSIVE results_le(_, _, _, _)
results_le(h, message, iv, key) ==
    IF iv >= MaxRetry THEN Err("Hashing")
    ELSE LET cand == Candidate(h, message, iv, size(key))
         IN IF from_bytes_be(cand) <= key.n THEN Ok(<<cand, iv>>)
            ELSE results_le(h, message, iv + 1, key)

RECURSIVE results_lt(_, _, _, _)
results_lt(h, message, iv, key) ==
    IF iv >= MaxRetry THEN Err("Hashing")
    ELSE LET cand == Candidate(h, message, iv, size(key))
         IN IF from_bytes_be(cand) < key.n THEN Ok(<<cand, iv>>)
            ELSE results_lt(h, message, iv + 1, key)

\* common::hash_message: (digest, iv), the counter seeded at 0
common_hash_message(h, signer_public_key, message) ==
    results_lt(h, message, 0, signer_public_key)

\* common::sign_hashed (signRaw): x^d mod n as a Signature of size(key) bytes;
\* an input error when x >= n
\* variant: the range check on the input is missing
sign_hashed_unchecked(r, priv_key, hashed) ==
    LET c == decrypt_and_check(r, priv_key, from_bytes_be(hashed) % priv_key.n)
    IN IF c.ok THEN Ok(FixedBytes(c.val, size(priv_key))) ELSE c

sign_hashed(r, priv_key, hashed) ==
    LET m == from_bytes_be(hashed)
    IN IF m >= priv_key.n THEN Err("Input")
       ELSE LET c == decrypt_and_check(r, priv_key, m)
            IN IF c.ok THEN Ok(FixedBytes(c.val, size(priv_key))) ELSE c

\* common::verify_hashed (verifyRaw): sig^e mod n as a Digest, compared
\* with the expected digest
verify_hashed(pub_key, hashed, sig) ==
    LET m == FixedBytes(encrypt(pub_key, from_bytes_be(sig)), size(pub_key))
    IN IF m = hashed THEN Ok(<<>>) ELSE Err("Verification")

\* ------------------------------------------------------------ lib.rs
\* variant: the message itself is signed, the Full Domain Hash is skipped
sign_without_fdh(h, r, priv_key, message) ==
    sign_hashed(r, priv_key, message)

\* variant: a hashing failure is replaced by a default digest
sign_default_digest(h, r, priv_key, message) ==
    LET public_key == to_public_key(priv_key)
        hm == common_hash_message(h, public_key, message)
    IN sign_hashed(r, priv_key, IF hm.ok THEN hm.val[1] ELSE <<0>>)

sign(h, r, priv_key, message) ==
    LET public_key == to_public_key(priv_key)
        hm == common_hash_message(h, public_key, message)
    IN IF ~hm.ok THEN hm
       ELSE sign_hashed(r, priv_key, hm.val[1])

verify(h, pub_key, message, sig) ==
    LET hm == common_hash_message(h, pub_key, message)
    IN IF ~hm.ok THEN hm
       ELSE verify_hashed(pub_key, hm.val[1], sig)

\* ------------------------------------------------------------ blind.rs
blind_sign(r, priv_key, hashed) == sign_hashed(r, priv_key, hashed)

\* variant: the digests are compared as integers, whatever their length
blind_verify_as_integers(pub_key, hashed, sig) ==
    IF encrypt(pub_key, from_bytes_be(sig)) = from_bytes_be(hashed)
    THEN Ok(<<>>) ELSE Err("Verification")

blind_verify(pub_key, hashed, sig) == verify_hashed(pub_key, hashed, sig)

hash_message(h, signer_public_key, message) ==
    LET hm == common_hash_message(h, signer_public_key, message)
    IN IF ~hm.ok THEN hm ELSE Ok(hm.val[1])

\* variant: the digest before blinding is returned (the shadowed c)
blind_returns_digest(r, pub_key, digest) ==
    LET c  == from_bytes_be(digest)
        cu == internals_blind(r, pub_key, c)
    IN << to_bytes_be(c), to_bytes_be(cu[2]) >>

blind(r, pub_key, digest) ==
    LET c  == from_bytes_be(digest)
        cu == internals_blind(r, pub_key, c)
    IN << to_bytes_be(cu[1]), to_bytes_be(cu[2]) >>

\* variant: the blinded signature is returned as it came
unblind_keeps_blinding(pub_key, blinded_sig, unblinder) ==
    to_bytes_be(from_bytes_be(blinded_sig))

unblind(pub_key, blinded_sig, unblinder) ==
    LET bs == from_bytes_be(blinded_sig)
        u  == from_bytes_be(unblinder)
    IN to_bytes_be(internals_unblind(pub_key, bs, u))

\* ------------------------------------------------------------ state
VARIABLES
    key,            \* the signer's private key (key_1)
    h,              \* the hash function H
    msg,            \* the message
    pc,             \* the step of the run
    digest,         \* blind::hash_message(pub, msg)
    plainSig,       \* sign(rng, key, msg)
    plainVerified,  \* verify(pub, msg, plainSig)
    blinded,        \* blind(rng, pub, digest).0
    unblinder,      \* blind(rng, pub, digest).1
    blindSig,       \* blind::sign(rng, key, blinded)
    blindCheck,     \* blind::verify(pub, digest, blindSig)
    signature,      \* unblind(pub, blindSig, unblinder)
    verified,       \* blind::verify(pub, hash_message(pub, msg), signature)
    key2,           \* a second private key (key_2)
    crossSig,       \* blind::sign(rng, key2, blinded)
    cross           \* the verifications under key2's public key

vars ==
    << key, h, msg, pc, digest, plainSig, plainVerified, blinded, unblinder,
       blindSig, blindCheck, signature, verified, key2, crossSig, cross >>

Unset == Err("unset")

Init ==
    /\ key \in Keys
    /\ h \in Hashes
    /\ msg \in Messages
    /\ pc = "start"
    /\ digest = Unset
    /\ plainSig = Unset
    /\ plainVerified = Unset
    /\ blinded = <<>>
    /\ unblinder = <<>>
    /\ blindSig = Unset
    /\ blindCheck = Unset
    /\ signature = <<>>
    /\ verified = Unset
    /\ key2 = key
    /\ crossSig = Unset
    /\ cross = [own |-> Unset, other |-> Unset, plain |-> Unset, plainOwn |-> Unset]

\* let digest = blind::hash_message::<H, _>(&signer_pub_key, message)
HashMessage ==
    /\ pc = "start"
    /\ digest' = hash_message(h, to_public_key(key), msg)
    /\ pc' = "hashed"
    /\ UNCHANGED << key, h, msg, plainSig, plainVerified, blinded, unblinder,
                    blindSig, blindCheck, signature, verified, key2, crossSig, cross >>

\* let signature = sign::<H, _>(&mut rng, &signer_priv_key, message)
PlainSign ==
    /\ pc = "hashed"
    /\ \E r \in RngDraws(key.n) :
          /\ Accepted(r, key.n)
          /\ plainSig' = sign(h, r, key, msg)
    /\ pc' = "plain_signed"
    /\ UNCHANGED << key, h, msg, digest, plainVerified, blinded, unblinder,
                    blindSig, blindCheck, signature, verified, key2, crossSig, cross >>

\* verify::<H, _>(&signer_pub_key, message, &signature); with no signature to
\* check (sign failed) the caller presents the byte 1
PlainVerify ==
    /\ pc = "plain_signed"
    /\ plainVerified' =
          verify(h, to_public_key(key), msg,
                 IF plainSig.ok THEN plainSig.val ELSE <<1>>)
    /\ pc' = "plain_verified"
    /\ UNCHANGED << key, h, msg, digest, plainSig, blinded, unblinder,
                    blindSig, blindCheck, signature, verified, key2, crossSig, cross >>

\* let (blinded_digest, unblinder) = blind::blind(&mut rng, &signer_pub_key, &digest)
Blind ==
    /\ pc = "plain_verified"
    /\ digest.ok
    /\ \E r \in RngDraws(key.n) :
          /\ Accepted(r, key.n)
          /\ LET bu == blind(r, to_public_key(key), digest.val)
             IN /\ blinded' = bu[1]
                /\ unblinder' = bu[2]
    /\ pc' = "blinded"
    /\ UNCHANGED << key, h, msg, digest, plainSig, plainVerified,
                    blindSig, blindCheck, signature, verified, key2, crossSig, cross >>

\* let blind_signature = blind::sign(&mut rng, &signer_priv_key, &blinded_digest)
BlindSign ==
    /\ pc = "blinded"
    /\ \E r \in RngDraws(key.n) :
          /\ Accepted(r, key.n)
          /\ blindSig' = blind_sign(r, key, blinded)
    /\ pc' = "blind_signed"
    /\ UNCHANGED << key, h, msg, digest, plainSig, plainVerified, blinded, unblinder,
                    blindCheck, signature, verified, key2, crossSig, cross >>

\* blind::verify(&signer_pub_key, &digest, &blind_signature)
VerifyBlindSignature ==
    /\ pc = "blind_signed"
    /\ blindSig.ok
    /\ blindCheck' = blind_verify(to_public_key(key), digest.val, blindSig.val)
    /\ pc' = "checked"
    /\ UNCHANGED << key, h, msg, digest, plainSig, plainVerified, blinded, unblinder,
                    blindSig, signature, verified, key2, crossSig, cross >>

\* let signature = blind::unblind(&signer_pub_key, &blind_signature, &unblinder)
Unblind ==
    /\ pc = "checked"
    /\ signature' = unblind(to_public_key(key), blindSig.val, unblinder)
    /\ pc' = "unblinded"
    /\ UNCHANGED << key, h, msg, digest, plainSig, plainVerified, blinded, unblinder,
                    blindSig, blindCheck, verified, key2, crossSig, cross >>

\* let check_digest = blind::hash_message(..)?; blind::verify(&pub, &check_digest, &signature)
Verify ==
    /\ pc = "unblinded"
    /\ LET check_digest == hash_message(h, to_public_key(key), msg)
       IN verified' =
             IF ~check_digest.ok THEN check_digest
             ELSE blind_verify(to_public_key(key), check_digest.val, signature)
    /\ pc' = "verified"
    /\ UNCHANGED << key, h, msg, digest, plainSig, plainVerified, blinded, unblinder,
                    blindSig, blindCheck, signature, key2, crossSig, cross >>

\* blind::sign(&mut rng, &key_2, &blinded_digest_1): another key signs the
\* blinded digest made for the first
CrossSign ==
    /\ pc = "verified"
    /\ \E k2 \in Keys :
          /\ k2.n # key.n
          /\ key2' = k2
          /\ \E r \in RngDraws(k2.n) :
                /\ Accepted(r, k2.n)
                /\ crossSig' = blind_sign(r, k2, blinded)
    /\ pc' = "cross_signed"
    /\ UNCHANGED << key, h, msg, digest, plainSig, plainVerified, blinded, unblinder,
                    blindSig, blindCheck, signature, verified, cross >>

\* the first key's signatures verified under the second public key, against
\* the first key's digest and against the second key's digest of the message
CrossVerify ==
    /\ pc = "cross_signed"
    /\ LET public_2 == to_public_key(key2)
           digest_2 == hash_message(h, public_2, msg)
       IN cross' =
             [ own      |-> blind_verify(public_2, digest.val, signature),
               other    |-> IF ~digest_2.ok THEN digest_2
                            ELSE blind_verify(public_2, digest_2.val, signature),
               plain    |-> verify(h, public_2, msg, plainSig.val),
               plainOwn |-> blind_verify(public_2, digest.val, plainSig.val) ]
    /\ pc' = "done"
    /\ UNCHANGED << key, h, msg, digest, plainSig, plainVerified, blinded, unblinder,
                    blindSig, blindCheck, signature, verified, key2, crossSig >>

Next ==
    \/ HashMessage
    \/ PlainSign
    \/ PlainVerify
    \/ Blind
    \/ BlindSign
    \/ VerifyBlindSignature
    \/ Unblind
    \/ Verify
    \/ CrossSign
    \/ CrossVerify

Spec == Init /\ [][Next]_vars

\* ------------------------------------------------------------ properties
\* the steps of a run, in order
Steps ==
    << "start", "hashed", "plain_signed", "plain_verified", "blinded",
       "blind_signed", "checked", "unblinded", "verified", "cross_signed", "done" >>

StepNo(p) == CHOOSE i \in 1..Len(Steps) : Steps[i] = p

\* the run has reached step p
At(p) == StepNo(pc) >= StepNo(p)

pub == to_public_key(key)

\* C1: whenever sign returns Ok(sig), verify under the public key of the same
\* private key returns Ok, for every key and message (the empty one included),
\* and the signature is the one any other rng draw gives.
C1_SignThenVerify ==
    /\ (At("plain_signed") /\ plainSig.ok) =>
          \A r \in RngDraws(key.n) :
             Accepted(r, key.n) => plainSig = sign(h, r, key, msg)
    /\ (At("plain_verified") /\ plainSig.ok) => plainVerified.ok

C1_Witness ==
    /\ pc = "plain_verified"
    /\ msg = <<>>
    /\ key.n = 323
    /\ plainSig.ok
    /\ plainVerified.ok

\* C2: the blind round trip: blind::sign on the blinded digest returns Ok, and
\* the unblinded signature verifies against hash_message(pub, m), for every
\* key, message and blinding factor.
C2_BlindRoundTrip ==
    /\ At("blind_signed") => blindSig.ok
    /\ At("verified") => verified.ok

C2_Witness ==
    /\ pc = "verified"
    /\ verified.ok
    /\ key.n = 323
    /\ from_bytes_be(unblinder) > 1
    /\ blinded # digest.val

\* C3: the blind signature fails blind::verify against the digest before
\* blinding, for every digest and every blinding factor blind can draw.
C3_BlindSignatureFails ==
    At("checked") => ~blindCheck.ok

\* C4: whenever hash_message returns Ok(digest), digest has exactly
\* k = ceil(bitlen(n)/8) bytes and its big-endian value is below n.
C4_DigestDomain ==
    digest.ok =>
       /\ Len(digest.val) = (BitLen(key.n) + 7) \div 8
       /\ from_bytes_be(digest.val) < key.n

C4_Witness ==
    /\ pc = "hashed"
    /\ digest.ok
    /\ key.n = 323
    /\ Len(digest.val) = 2
    /\ common_hash_message(h, pub, msg).val[2] > 0

C6_SignRejectsLargeInput ==
    (At("cross_signed") /\ from_bytes_be(blinded) >= key2.n) =>
       /\ ~crossSig.ok
       /\ crossSig.err = "Input"
       /\ crossSig.val = <<>>

C6_Witness ==
    /\ pc = "cross_signed"
    /\ from_bytes_be(blinded) >= key2.n
    /\ Len(blinded) = size(key2)
    /\ ~crossSig.ok

\* C8: every signature returned by unblind, and every blind signature returned
\* by blind::sign, has exactly size(key) bytes and a value below n.
C8_SignatureDomain ==
    /\ (At("blind_signed") /\ blindSig.ok) =>
          /\ Len(blindSig.val) = size(key)
          /\ from_bytes_be(blindSig.val) < key.n
    /\ At("unblinded") =>
          /\ Len(signature) = size(key)
          /\ from_bytes_be(signature) < key.n

\* the iv values within the retry bound whose candidate is below n
GoodCounters ==
    { iv \in 0..(MaxRetry - 1) :
         from_bytes_be(Candidate(h, msg, iv, size(key))) < key.n }

FirstGoodCounter == CHOOSE iv \in GoodCounters : \A j \in GoodCounters : iv <= j

\* C9: the retry loop ends: the digest is the candidate of the lowest counter
\* whose integer is below n, and when no counter within the bound has one,
\* hash_message, sign and verify all return the hashing error.
C9_RetryLoopEnds ==
    /\ (At("hashed") /\ GoodCounters # {}) =>
          digest = Ok(Candidate(h, msg, FirstGoodCounter, size(key)))
    /\ (At("hashed") /\ GoodCounters = {}) => digest = Err("Hashing")
    /\ (At("plain_signed") /\ GoodCounters = {}) => plainSig = Err("Hashing")
    /\ (At("plain_verified") /\ GoodCounters = {}) => plainVerified = Err("Hashing")
    /\ (At("plain_signed") /\ GoodCounters # {}) => plainSig.err # "Hashing"

C9_Witness ==
    /\ pc = "plain_verified"
    /\ GoodCounters = {}
    /\ digest = Err("Hashing")
    /\ plainVerified = Err("Hashing")

\* C10: the signature of the blind path (hash_message, blind, blind::sign,
\* unblind) equals, byte for byte, the signature plain sign returns.
C10_BlindEqualsPlain ==
    (At("unblinded") /\ plainSig.ok) => signature = plainSig.val

\* the blinding factors the resampling loop of internals::blind can end with
Factors(n) == { r \in 1..(n - 1) : HasInverse(r, n) }

\* the blinded digests blind can return for a digest, over all factors
BlindedOutputs(k, dg) == { blind(r, k, dg)[1] : r \in Factors(k.n) }

Coprime(dg, n) == Gcd(from_bytes_be(dg), n) = 1

\* C7: the blinded digests blind can output are the same for any two digests
\* of the same key, so the value the signer receives does not determine the
\* digest that was blinded.
C7_BlindingHidesDigest ==
    pc = "blinded" =>
       LET mine == BlindedOutputs(pub, digest.val)
       IN \A m2 \in Messages :
             LET d2 == hash_message(h, pub, m2)
             IN d2.ok => mine = BlindedOutputs(pub, d2.val)

\* C7 (amended): for any two digests coprime to n, the blinded digests blind
\* can output are the same set, and distinct factors give distinct blinded
\* digests, so a uniform factor gives both digests the same distribution.
C7_BlindingHidesCoprimeDigest ==
    (pc = "blinded" /\ Coprime(digest.val, key.n)) =>
       LET mine == BlindedOutputs(pub, digest.val)
       IN \A m2 \in Messages :
             LET d2 == hash_message(h, pub, m2)
             IN (d2.ok /\ Coprime(d2.val, key.n)) =>
                   LET other == BlindedOutputs(pub, d2.val)
                   IN /\ blinded \in other
                      /\ mine = other
                      /\ Cardinality(mine) = Cardinality(Factors(key.n))
                      /\ Cardinality(other) = Cardinality(Factors(key.n))

C7_Witness ==
    /\ pc = "blinded"
    /\ key.n = 323
    /\ Coprime(digest.val, key.n)
    /\ blinded # digest.val
    /\ \E m2 \in Messages :
          LET d2 == hash_message(h, pub, m2)
          IN d2.ok /\ Coprime(d2.val, key.n) /\ d2.val # digest.val

====
